---- MODULE Spec2Model ----
(***************************************************************************)
(* Model of src/bin/verify_15.rs: the offline audit of round 15 of the     *)
(* powers-of-tau ceremony.  `main` is a straight-line pipeline of          *)
(* assertions; the first assertion that fails panics and ends the run.     *)
(*                                                                         *)
(* Group elements are modelled by their discrete logarithm with respect    *)
(* to the group generator, in a prime-order group of order GroupOrder:     *)
(* the point [x]_1 of G1 (or [x]_2 of G2) is the integer x, the generator  *)
(* is 1 and the point at infinity is 0.  The pairing e([x]_1, [y]_2) is    *)
(* the target-group element with exponent x*y.                             *)
(*                                                                         *)
(* Rust slices are 0-based, TLA+ sequences 1-based: tau_powers_g1[1] of    *)
(* the source is tau_powers_g1[2] here.                                    *)
(***************************************************************************)
EXTENDS Integers, Sequences, FiniteSets, TLC

VARIABLES
    challenge_14,               \* the file `challenge_14`: size, digest header, body
    challenge_15,               \* the file `challenge_15`
    pc,                         \* the statement of main to execute next
    verdict,                    \* "running", "valid" or the assertion that panicked
    before,                     \* Accumulator decoded from challenge_14 (<<>> until then)
    after,                      \* Accumulator decoded from challenge_15 (<<>> until then)
    tau_powers_ratio_g1,        \* locals of main holding rlc_ratio results
    tau_powers_ratio_g2,
    alpha_tau_powers_ratio_g1,
    beta_tau_powers_ratio_g1,
    evaluated,                  \* history: the statements executed so far, in order
    original,                   \* ghost: the untampered bodies the two files derive from
    previous                    \* verdicts of earlier executions on the same files

vars == <<challenge_14, challenge_15, pc, verdict, before, after,
          tau_powers_ratio_g1, tau_powers_ratio_g2,
          alpha_tau_powers_ratio_g1, beta_tau_powers_ratio_g1,
          evaluated, original, previous>>

---------------------------------------------------------------------------
(* Bounds and constants *)

\* Order of the (toy) prime-order groups G1, G2 and of the scalar field.
GroupOrder == 7

\* Length of tau_powers_g1 in the snapshots of the main specification.
TauPowersG1Length == 3

\* Length of tau_powers_g2, alpha_tau_powers_g1 and beta_tau_powers_g1.
TauPowersLength == 2

\* Length of tau_powers_g1 in the permuted-sequence specification.
SwapLength == 5

\* Length in bytes of the digest header of a challenge file.
DigestLength == 64

\* Expected length of a challenge file: the digest header followed by every
\* point of the accumulator (one unit per encoded point in this model).
ACCUMULATOR_BYTE_SIZE == DigestLength + TauPowersG1Length + (3 * TauPowersLength) + 1

Scalars == 0 .. (GroupOrder - 1)
NonZero == 1 .. (GroupOrder - 1)

\* G1Affine::one(), G2Affine::one() and the point at infinity.
G1One == 1
G2One == 1
Identity == 0

RESPONSE_14_DIGEST ==
    "357738325a328e2c9fc5c49a8665baf9e5bd30d0475e2d842a7541e90930b9b8c8c74380f82f503255c2dffb35ef64232b3cd05681da013e06f1b6430a0f2589"
RESPONSE_15_DIGEST ==
    "c47f56c5ab6aa5234fcbfbaa9ecfa5b450672e7d65a276bfc31f3b7e43ee65ca9f7c2ad15cc3a5c22040e11aaa749e1fecb0e6d7dd8f6976865d03ffa3a4bd85"

---------------------------------------------------------------------------
(* Group arithmetic, pairing and the library primitives *)

Mul(s, p) == (s * p) % GroupOrder
Add(p, q) == (p + q) % GroupOrder

RECURSIVE Pow(_, _)
Pow(t, i) == IF i = 0 THEN 1 ELSE Mul(t, Pow(t, i - 1))

\* e(p, q) as the exponent of the target-group generator.
pairing_with(p, q) == (p * q) % GroupOrder

\* same_ratio((a, b), (c, d)): e(a, d) == e(b, c).  The first pair is in one
\* group and the second in the other; line 164 passes the G2 pair first.
same_ratio(g1, g2) == pairing_with(g1[1], g2[2]) = pairing_with(g1[2], g2[1])

\* sum over i >= k of rho[i] * v[i]
RECURSIVE CombineFrom(_, _, _)
CombineFrom(v, rho, k) ==
    IF k > Len(v) THEN Identity
    ELSE Add(Mul(rho[k], v[k]), CombineFrom(v, rho, k + 1))

\* sum over i of rho[i] * v[i]
Combine(v, rho) == CombineFrom(v, rho, 1)

\* merge_pairs(v1, v2): the same random scalars rho weigh both windows.
merge_pairs(v1, v2, rho) == <<Combine(v1, rho), Combine(v2, rho)>>

\* power_pairs(v) = merge_pairs(&v[0..n-1], &v[1..]); rho is the draw.
power_pairs(v, rho) ==
    merge_pairs(SubSeq(v, 1, Len(v) - 1), SubSeq(v, 2, Len(v)), rho)

\* The draws of k random scalars.
Draws(k) == [1 .. k -> Scalars]

\* An rlc_ratio that combines the two windows with the scalars in opposite order.
rlc_ratio_unshared(points, rho) ==
    <<Combine(SubSeq(points, 1, Len(points) - 1), rho),
      Combine(SubSeq(points, 2, Len(points)),
              [i \in 1 .. Len(rho) |-> rho[Len(rho) + 1 - i]])>>

\* fn rlc_ratio(points) -> (G, G)
rlc_ratio(points, rho) == power_pairs(points, rho)

---------------------------------------------------------------------------
(* Digest header *)

HexDigit == <<"0", "1", "2", "3", "4", "5", "6", "7",
              "8", "9", "a", "b", "c", "d", "e", "f">>

\* format!("{:02x}", byte)
format_02x(byte) == HexDigit[(byte \div 16) + 1] \o HexDigit[(byte % 16) + 1]

RECURSIVE CollectHex(_)
CollectHex(bytes) ==
    IF Len(bytes) = 0 THEN "" ELSE format_02x(bytes[1]) \o CollectHex(Tail(bytes))

\* A rendering that prints each byte without zero padding ({:x} for {:02x}).
response_digest_unpadded(file) ==
    LET RECURSIVE Go(_)
        Go(bytes) ==
            IF Len(bytes) = 0 THEN ""
            ELSE (IF bytes[1] < 16 THEN HexDigit[bytes[1] + 1] ELSE format_02x(bytes[1]))
                 \o Go(Tail(bytes))
    IN Go(SubSeq(file.header, 1, DigestLength))

\* read_exact of the first 64 bytes, rendered as lowercase hex.
response_digest(file) == CollectHex(SubSeq(file.header, 1, DigestLength))

---------------------------------------------------------------------------
(* Accumulators and challenge files *)

\* The well-formed accumulator with accumulated secrets t, a, b.
Reference(t, a, b, n, m) ==
    [tau_powers_g1       |-> [i \in 1 .. n |-> Pow(t, i - 1)],
     tau_powers_g2       |-> [i \in 1 .. m |-> Pow(t, i - 1)],
     alpha_tau_powers_g1 |-> [i \in 1 .. m |-> Mul(a, Pow(t, i - 1))],
     beta_tau_powers_g1  |-> [i \in 1 .. m |-> Mul(b, Pow(t, i - 1))],
     beta_g2             |-> b]

\* The contribution of a participant with secrets tk, ak, bk.
Transform(s, tk, ak, bk) ==
    [tau_powers_g1       |-> [i \in DOMAIN s.tau_powers_g1 |->
                                 Mul(Pow(tk, i - 1), s.tau_powers_g1[i])],
     tau_powers_g2       |-> [i \in DOMAIN s.tau_powers_g2 |->
                                 Mul(Pow(tk, i - 1), s.tau_powers_g2[i])],
     alpha_tau_powers_g1 |-> [i \in DOMAIN s.alpha_tau_powers_g1 |->
                                 Mul(Mul(ak, Pow(tk, i - 1)), s.alpha_tau_powers_g1[i])],
     beta_tau_powers_g1  |-> [i \in DOMAIN s.beta_tau_powers_g1 |->
                                 Mul(Mul(bk, Pow(tk, i - 1)), s.beta_tau_powers_g1[i])],
     beta_g2             |-> Mul(bk, s.beta_g2)]

SequenceFields == {"tau_powers_g1", "tau_powers_g2",
                   "alpha_tau_powers_g1", "beta_tau_powers_g1"}

\* The positions of the points of an accumulator: <<field, index>>.
Positions(s) ==
    UNION {{<<f, i>> : i \in DOMAIN s[f]} : f \in SequenceFields}
        \cup {<<"beta_g2", 1>>}

PointAt(s, pos) == IF pos[1] = "beta_g2" THEN s.beta_g2 ELSE s[pos[1]][pos[2]]

\* s with the point at pos replaced by p.
WithPoint(s, pos, p) ==
    IF pos[1] = "beta_g2" THEN [s EXCEPT !.beta_g2 = p]
    ELSE [s EXCEPT ![pos[1]][pos[2]] = p]

AllPoints(s) == {PointAt(s, pos) : pos \in Positions(s)}

\* Accumulator::deserialize: with CheckForCorrectness::Yes a point at infinity
\* is an error; with CheckForCorrectness::No the points are taken as they are.
\* <<acc>> is Ok(acc), <<>> is Err.
deserialize(body, checked) ==
    IF checked /\ Identity \in AllPoints(body) THEN <<>> ELSE <<body>>

---------------------------------------------------------------------------
(* The checks of main, as functions of the two decoded accumulators *)

\* lines 102-103
generator_g1_ok(a) == a.tau_powers_g1[1] = G1One
generator_g2_ok(a) == a.tau_powers_g2[1] = G2One

\* A tau check that compares the zeroth powers (the generators) of both rounds.
tau_update_ok_index0(b, a) ==
    same_ratio(<<b.tau_powers_g1[1], a.tau_powers_g1[1]>>,
               <<b.tau_powers_g2[1], a.tau_powers_g2[1]>>)

\* A tau check that passes the G2 pair in the opposite order.
tau_update_ok_swapped_g2(b, a) ==
    same_ratio(<<b.tau_powers_g1[2], a.tau_powers_g1[2]>>,
               <<a.tau_powers_g2[2], b.tau_powers_g2[2]>>)

\* lines 107-123
tau_update_ok(b, a) ==
    LET taus_14_g1 == b.tau_powers_g1[2]
        taus_15_g1 == a.tau_powers_g1[2]
        taus_14_g2 == b.tau_powers_g2[2]
        taus_15_g2 == a.tau_powers_g2[2]
    IN same_ratio(<<taus_14_g1, taus_15_g1>>, <<taus_14_g2, taus_15_g2>>)

\* An alpha check that looks at the second element of the alpha sequence.
alpha_changed_index1(b, a) ==
    b.alpha_tau_powers_g1[2] # a.alpha_tau_powers_g1[2]

\* lines 127-130
alpha_changed(b, a) ==
    LET alphas_14_g1 == b.alpha_tau_powers_g1[1]
        alphas_15_g1 == a.alpha_tau_powers_g1[1]
    IN alphas_14_g1 # alphas_15_g1

\* A beta check whose two G2 points are both read from `before`.
beta_update_ok_before_g2(b, a) ==
    same_ratio(<<b.beta_tau_powers_g1[1], a.beta_tau_powers_g1[1]>>,
               <<b.beta_g2, b.beta_g2>>)

\* lines 134-153
beta_update_ok(b, a) ==
    LET betas_14_g1 == b.beta_tau_powers_g1[1]
        betas_15_g1 == a.beta_tau_powers_g1[1]
        betas_14_g2 == b.beta_g2
        betas_15_g2 == a.beta_g2
    IN same_ratio(<<betas_14_g1, betas_15_g1>>, <<betas_14_g2, betas_15_g2>>)

\* Ratios built from the wrong element or in the wrong order.
one_over_taus_g1_index0(a) == <<G1One, a.tau_powers_g1[1]>>
one_over_taus_g2_inverted(a) == <<a.tau_powers_g2[2], G2One>>

\* lines 156-157
one_over_taus_g1(a) == <<G1One, a.tau_powers_g1[2]>>
one_over_taus_g2(a) == <<G2One, a.tau_powers_g2[2]>>

---------------------------------------------------------------------------
(* main: one action per statement *)

\* The statements of main in a different order: the beta update check runs
\* before the alpha check.
MainOrderBetaFirst ==
    <<"size_14", "size_15", "digest_14", "digest_15",
      "deserialize_before", "deserialize_after",
      "generator_g1", "generator_g2",
      "tau_update", "beta_update", "alpha_changed",
      "rlc_tau_g1", "rlc_tau_g2", "tau_powers_g1", "tau_powers_g2",
      "rlc_alpha", "rlc_beta", "alpha_powers", "beta_powers",
      "return">>

\* The statements of main in program order (lines 52-172).
MainOrder ==
    <<"size_14", "size_15", "digest_14", "digest_15",
      "deserialize_before", "deserialize_after",
      "generator_g1", "generator_g2",
      "tau_update", "alpha_changed", "beta_update",
      "rlc_tau_g1", "rlc_tau_g2", "tau_powers_g1", "tau_powers_g2",
      "rlc_alpha", "rlc_beta", "alpha_powers", "beta_powers",
      "return">>

IndexOf(seq, x) == CHOOSE i \in DOMAIN seq : seq[i] = x

\* The statement that follows label when label does not panic.
NextPc(label) == MainOrder[IndexOf(MainOrder, label) + 1]

NoRatio == << >>

\* An assert!/expect at label: falls through when ok, panics otherwise.
Check(label, ok, failure) ==
    /\ pc = label
    /\ evaluated' = Append(evaluated, label)
    /\ IF ok
       THEN pc' = NextPc(label) /\ verdict' = verdict
       ELSE pc' = "exit" /\ verdict' = failure

\* A statement that cannot fail.
Run(label) == Check(label, TRUE, "unreachable")

\* line 52
CheckSize14 ==
    /\ Check("size_14", challenge_14.size = ACCUMULATOR_BYTE_SIZE, "SizeMismatch")
    /\ UNCHANGED <<challenge_14, challenge_15, before, after, tau_powers_ratio_g1,
                   tau_powers_ratio_g2, alpha_tau_powers_ratio_g1,
                   beta_tau_powers_ratio_g1, original, previous>>

\* line 53
CheckSize15 ==
    /\ Check("size_15", challenge_15.size = ACCUMULATOR_BYTE_SIZE, "SizeMismatch")
    /\ UNCHANGED <<challenge_14, challenge_15, before, after, tau_powers_ratio_g1,
                   tau_powers_ratio_g2, alpha_tau_powers_ratio_g1,
                   beta_tau_powers_ratio_g1, original, previous>>

\* lines 62-69
CheckDigest14 ==
    /\ Check("digest_14", response_digest(challenge_14) = RESPONSE_14_DIGEST,
             "AttestationMismatch")
    /\ UNCHANGED <<challenge_14, challenge_15, before, after, tau_powers_ratio_g1,
                   tau_powers_ratio_g2, alpha_tau_powers_ratio_g1,
                   beta_tau_powers_ratio_g1, original, previous>>

\* lines 70-77
CheckDigest15 ==
    /\ Check("digest_15", response_digest(challenge_15) = RESPONSE_15_DIGEST,
             "AttestationMismatch")
    /\ UNCHANGED <<challenge_14, challenge_15, before, after, tau_powers_ratio_g1,
                   tau_powers_ratio_g2, alpha_tau_powers_ratio_g1,
                   beta_tau_powers_ratio_g1, original, previous>>

\* lines 80-87: CheckForCorrectness::No
DeserializeBefore ==
    /\ Check("deserialize_before", deserialize(challenge_14.body, FALSE) # << >>,
             "DecodeError")
    /\ before' = deserialize(challenge_14.body, FALSE)
    /\ UNCHANGED <<challenge_14, challenge_15, after, tau_powers_ratio_g1,
                   tau_powers_ratio_g2, alpha_tau_powers_ratio_g1,
                   beta_tau_powers_ratio_g1, original, previous>>

\* lines 89-94: CheckForCorrectness::Yes
DeserializeAfter ==
    /\ Check("deserialize_after", deserialize(challenge_15.body, TRUE) # << >>,
             "IdentityElementRejected")
    /\ after' = deserialize(challenge_15.body, TRUE)
    /\ UNCHANGED <<challenge_14, challenge_15, before, tau_powers_ratio_g1,
                   tau_powers_ratio_g2, alpha_tau_powers_ratio_g1,
                   beta_tau_powers_ratio_g1, original, previous>>

\* line 102
CheckGeneratorG1 ==
    /\ Check("generator_g1", generator_g1_ok(after[1]), "GeneratorMismatch")
    /\ UNCHANGED <<challenge_14, challenge_15, before, after, tau_powers_ratio_g1,
                   tau_powers_ratio_g2, alpha_tau_powers_ratio_g1,
                   beta_tau_powers_ratio_g1, original, previous>>

\* line 103
CheckGeneratorG2 ==
    /\ Check("generator_g2", generator_g2_ok(after[1]), "GeneratorMismatch")
    /\ UNCHANGED <<challenge_14, challenge_15, before, after, tau_powers_ratio_g1,
                   tau_powers_ratio_g2, alpha_tau_powers_ratio_g1,
                   beta_tau_powers_ratio_g1, original, previous>>

\* lines 107-123
CheckTauUpdate ==
    /\ Check("tau_update", tau_update_ok(before[1], after[1]), "TauUpdateMismatch")
    /\ UNCHANGED <<challenge_14, challenge_15, before, after, tau_powers_ratio_g1,
                   tau_powers_ratio_g2, alpha_tau_powers_ratio_g1,
                   beta_tau_powers_ratio_g1, original, previous>>

\* lines 127-130
CheckAlphaChanged ==
    /\ Check("alpha_changed", alpha_changed(before[1], after[1]), "AlphaUnchanged")
    /\ UNCHANGED <<challenge_14, challenge_15, before, after, tau_powers_ratio_g1,
                   tau_powers_ratio_g2, alpha_tau_powers_ratio_g1,
                   beta_tau_powers_ratio_g1, original, previous>>

\* lines 134-153
CheckBetaUpdate ==
    /\ Check("beta_update", beta_update_ok(before[1], after[1]), "BetaUpdateMismatch")
    /\ UNCHANGED <<challenge_14, challenge_15, before, after, tau_powers_ratio_g1,
                   tau_powers_ratio_g2, alpha_tau_powers_ratio_g1,
                   beta_tau_powers_ratio_g1, original, previous>>

\* line 161: a fresh draw of Len - 1 scalars
RlcTauG1 ==
    /\ Run("rlc_tau_g1")
    /\ \E rho \in Draws(Len(after[1].tau_powers_g1) - 1) :
           tau_powers_ratio_g1' = rlc_ratio(after[1].tau_powers_g1, rho)
    /\ UNCHANGED <<challenge_14, challenge_15, before, after,
                   tau_powers_ratio_g2, alpha_tau_powers_ratio_g1,
                   beta_tau_powers_ratio_g1, original, previous>>

\* line 162
RlcTauG2 ==
    /\ Run("rlc_tau_g2")
    /\ \E rho \in Draws(Len(after[1].tau_powers_g2) - 1) :
           tau_powers_ratio_g2' = rlc_ratio(after[1].tau_powers_g2, rho)
    /\ UNCHANGED <<challenge_14, challenge_15, before, after,
                   tau_powers_ratio_g1, alpha_tau_powers_ratio_g1,
                   beta_tau_powers_ratio_g1, original, previous>>

\* line 163; tau_powers_ratio_g1 is dead after this statement
CheckTauPowersG1 ==
    /\ Check("tau_powers_g1",
             same_ratio(tau_powers_ratio_g1, one_over_taus_g2(after[1])),
             "PowersNotConsecutive_tau_g1")
    /\ tau_powers_ratio_g1' = NoRatio
    /\ UNCHANGED <<challenge_14, challenge_15, before, after,
                   tau_powers_ratio_g2, alpha_tau_powers_ratio_g1,
                   beta_tau_powers_ratio_g1, original, previous>>

\* line 164; tau_powers_ratio_g2 is dead after this statement
CheckTauPowersG2 ==
    /\ Check("tau_powers_g2",
             same_ratio(tau_powers_ratio_g2, one_over_taus_g1(after[1])),
             "PowersNotConsecutive_tau_g2")
    /\ tau_powers_ratio_g2' = NoRatio
    /\ UNCHANGED <<challenge_14, challenge_15, before, after,
                   tau_powers_ratio_g1, alpha_tau_powers_ratio_g1,
                   beta_tau_powers_ratio_g1, original, previous>>

\* line 168
RlcAlpha ==
    /\ Run("rlc_alpha")
    /\ \E rho \in Draws(Len(after[1].alpha_tau_powers_g1) - 1) :
           alpha_tau_powers_ratio_g1' = rlc_ratio(after[1].alpha_tau_powers_g1, rho)
    /\ UNCHANGED <<challenge_14, challenge_15, before, after,
                   tau_powers_ratio_g1, tau_powers_ratio_g2,
                   beta_tau_powers_ratio_g1, original, previous>>

\* line 169
RlcBeta ==
    /\ Run("rlc_beta")
    /\ \E rho \in Draws(Len(after[1].beta_tau_powers_g1) - 1) :
           beta_tau_powers_ratio_g1' = rlc_ratio(after[1].beta_tau_powers_g1, rho)
    /\ UNCHANGED <<challenge_14, challenge_15, before, after,
                   tau_powers_ratio_g1, tau_powers_ratio_g2,
                   alpha_tau_powers_ratio_g1, original, previous>>

\* line 170; alpha_tau_powers_ratio_g1 is dead after this statement
CheckAlphaPowers ==
    /\ Check("alpha_powers",
             same_ratio(alpha_tau_powers_ratio_g1, one_over_taus_g2(after[1])),
             "PowersNotConsecutive_alpha")
    /\ alpha_tau_powers_ratio_g1' = NoRatio
    /\ UNCHANGED <<challenge_14, challenge_15, before, after,
                   tau_powers_ratio_g1, tau_powers_ratio_g2,
                   beta_tau_powers_ratio_g1, original, previous>>

\* line 171; beta_tau_powers_ratio_g1 is dead after this statement
CheckBetaPowers ==
    /\ Check("beta_powers",
             same_ratio(beta_tau_powers_ratio_g1, one_over_taus_g2(after[1])),
             "PowersNotConsecutive_beta")
    /\ beta_tau_powers_ratio_g1' = NoRatio
    /\ UNCHANGED <<challenge_14, challenge_15, before, after,
                   tau_powers_ratio_g1, tau_powers_ratio_g2,
                   alpha_tau_powers_ratio_g1, original, previous>>

\* line 172: main returns without having panicked
Return ==
    /\ pc = "return"
    /\ pc' = "exit"
    /\ verdict' = "valid"
    /\ evaluated' = Append(evaluated, "return")
    /\ UNCHANGED <<challenge_14, challenge_15, before, after, tau_powers_ratio_g1,
                   tau_powers_ratio_g2, alpha_tau_powers_ratio_g1,
                   beta_tau_powers_ratio_g1, original, previous>>

\* How many times the binary is run again on the same two files.
MaxReruns == 1

\* The binary is executed again on the same files: every local starts afresh.
Rerun ==
    /\ pc = "exit"
    /\ Len(previous) < MaxReruns
    /\ previous' = Append(previous, verdict)
    /\ pc' = MainOrder[1]
    /\ verdict' = "running"
    /\ before' = << >>
    /\ after' = << >>
    /\ tau_powers_ratio_g1' = NoRatio
    /\ tau_powers_ratio_g2' = NoRatio
    /\ alpha_tau_powers_ratio_g1' = NoRatio
    /\ beta_tau_powers_ratio_g1' = NoRatio
    /\ evaluated' = << >>
    /\ UNCHANGED <<challenge_14, challenge_15, original>>

Next ==
    \/ CheckSize14
    \/ CheckSize15
    \/ CheckDigest14
    \/ CheckDigest15
    \/ DeserializeBefore
    \/ DeserializeAfter
    \/ CheckGeneratorG1
    \/ CheckGeneratorG2
    \/ CheckTauUpdate
    \/ CheckAlphaChanged
    \/ CheckBetaUpdate
    \/ RlcTauG1
    \/ RlcTauG2
    \/ CheckTauPowersG1
    \/ CheckTauPowersG2
    \/ RlcAlpha
    \/ RlcBeta
    \/ CheckAlphaPowers
    \/ CheckBetaPowers
    \/ Return

NextRerun == Next \/ Rerun

---------------------------------------------------------------------------
(* Inputs: the two challenge files *)

\* The 64 header bytes of the published challenge files.
Header14 ==
    <<53, 119, 56, 50, 90, 50, 142, 44, 159, 197, 196, 154, 134, 101, 186, 249,
      229, 189, 48, 208, 71, 94, 45, 132, 42, 117, 65, 233, 9, 48, 185, 184,
      200, 199, 67, 128, 248, 47, 80, 50, 85, 194, 223, 251, 53, 239, 100, 35,
      43, 60, 208, 86, 129, 218, 1, 62, 6, 241, 182, 67, 10, 15, 37, 137>>
Header15 ==
    <<196, 127, 86, 197, 171, 106, 165, 35, 79, 203, 251, 170, 158, 207, 165, 180,
      80, 103, 46, 125, 101, 162, 118, 191, 195, 31, 59, 126, 67, 238, 101, 202,
      159, 124, 42, 209, 92, 195, 165, 194, 32, 64, 225, 26, 170, 116, 158, 31,
      236, 176, 230, 215, 221, 143, 105, 118, 134, 93, 3, 255, 163, 164, 189, 133>>

\* header with byte i changed.
Corrupt(header, i) == [header EXCEPT ![i] = (@ + 1) % 256]

File(size, header, body) == [size |-> size, header |-> header, body |-> body]

\* Accumulated secrets <<tau, alpha, beta>> of the rounds before this one.
BeforeSecrets == {<<3, 2, 2>>, <<1, 1, 1>>, <<6, 5, 4>>}

\* Secrets <<tau_k, alpha_k, beta_k>> of the contributions that get tampered with.
ContributionSecrets == {<<5, 3, 4>>, <<6, 2, 1>>}

InitLocals ==
    /\ pc = MainOrder[1]
    /\ verdict = "running"
    /\ before = << >>
    /\ after = << >>
    /\ tau_powers_ratio_g1 = NoRatio
    /\ tau_powers_ratio_g2 = NoRatio
    /\ alpha_tau_powers_ratio_g1 = NoRatio
    /\ beta_tau_powers_ratio_g1 = NoRatio
    /\ evaluated = << >>
    /\ previous = << >>

\* Both files as published, with bodies b and a derived from the honest pair orig.
Published(b, a, orig) ==
    /\ challenge_14 = File(ACCUMULATOR_BYTE_SIZE, Header14, b)
    /\ challenge_15 = File(ACCUMULATOR_BYTE_SIZE, Header15, a)
    /\ original = orig

\* An honest round: after is the reference transformation of a well-formed before.
InitHonestOf(befores, n) ==
    \E s \in befores, tk \in NonZero, ak \in NonZero, bk \in NonZero :
        LET b == Reference(s[1], s[2], s[3], n, TauPowersLength)
            a == Transform(b, tk, ak, bk)
        IN Published(b, a, <<b, a>>)

\* An honest round in which one point of one of the two bodies was replaced.
InitSubstitutedOf(befores, contributions) ==
    \E s \in befores, k \in contributions :
        LET b == Reference(s[1], s[2], s[3], TauPowersG1Length, TauPowersLength)
            a == Transform(b, k[1], k[2], k[3])
        IN \E pos \in Positions(b), p \in Scalars :
              \/ /\ p # PointAt(b, pos)
                 /\ Published(WithPoint(b, pos, p), a, <<b, a>>)
              \/ /\ p # PointAt(a, pos)
                 /\ Published(b, WithPoint(a, pos, p), <<b, a>>)

FaultKinds == {"size_14", "size_15", "header_14", "header_15", "identity",
               "generator_g1", "generator_g2", "tau", "alpha", "beta",
               "powers_g1", "powers_alpha", "powers_beta"}

\* The after body a of the honest pair <<b, a>> with the faults F injected.
Faulty(b, a, F) ==
    LET n == Len(a.tau_powers_g1)
        m == Len(a.alpha_tau_powers_g1)
        Pick(kind, pos, p) == IF kind \in F THEN p ELSE PointAt(a, pos)
    IN [tau_powers_g1 |->
            [i \in 1 .. n |->
                IF i = 1 THEN Pick("generator_g1", <<"tau_powers_g1", 1>>, Mul(2, G1One))
                ELSE IF i = 2 THEN Pick("tau", <<"tau_powers_g1", 2>>,
                                        Mul(2, a.tau_powers_g1[2]))
                ELSE IF i = n THEN Pick("powers_g1", <<"tau_powers_g1", n>>,
                                        Mul(2, a.tau_powers_g1[n]))
                ELSE a.tau_powers_g1[i]],
        tau_powers_g2 |->
            [i \in DOMAIN a.tau_powers_g2 |->
                IF i = 1 THEN Pick("generator_g2", <<"tau_powers_g2", 1>>, Mul(2, G2One))
                ELSE a.tau_powers_g2[i]],
        alpha_tau_powers_g1 |->
            [i \in 1 .. m |->
                IF i = 1 THEN Pick("alpha", <<"alpha_tau_powers_g1", 1>>,
                                   b.alpha_tau_powers_g1[1])
                ELSE IF i = m /\ "identity" \in F THEN Identity
                ELSE IF i = m THEN Pick("powers_alpha", <<"alpha_tau_powers_g1", m>>,
                                        Mul(2, a.alpha_tau_powers_g1[m]))
                ELSE a.alpha_tau_powers_g1[i]],
        beta_tau_powers_g1 |->
            [i \in DOMAIN a.beta_tau_powers_g1 |->
                IF i = m THEN Pick("powers_beta", <<"beta_tau_powers_g1", m>>,
                                   Mul(2, a.beta_tau_powers_g1[m]))
                ELSE a.beta_tau_powers_g1[i]],
        beta_g2 |-> Pick("beta", <<"beta_g2", 1>>, Mul(2, a.beta_g2))]

\* An honest round with any combination of faults injected.
InitFaults ==
    \E s \in {<<3, 2, 2>>}, k \in {<<6, 3, 4>>}, F \in SUBSET FaultKinds :
        LET b == Reference(s[1], s[2], s[3], TauPowersG1Length, TauPowersLength)
            a == Transform(b, k[1], k[2], k[3])
        IN /\ challenge_14 =
                File(IF "size_14" \in F THEN ACCUMULATOR_BYTE_SIZE - 1
                                        ELSE ACCUMULATOR_BYTE_SIZE,
                     IF "header_14" \in F THEN Corrupt(Header14, 1) ELSE Header14,
                     b)
           /\ challenge_15 =
                File(IF "size_15" \in F THEN ACCUMULATOR_BYTE_SIZE + 1
                                        ELSE ACCUMULATOR_BYTE_SIZE,
                     IF "header_15" \in F THEN Corrupt(Header15, DigestLength)
                                          ELSE Header15,
                     Faulty(b, a, F))
           /\ original = <<b, a>>

\* A before file that was never validated: its tau_powers_g1[1] and
\* tau_powers_g2[1] are any points, the point at infinity included, and the
\* after file carries any point as tau_powers_g1[1].
InitLenientTau ==
    \E s \in {<<3, 2, 2>>}, k \in {<<6, 3, 4>>} :
        LET b == Reference(s[1], s[2], s[3], TauPowersG1Length, TauPowersLength)
            a == Transform(b, k[1], k[2], k[3])
        IN \E x \in Scalars, y \in Scalars, u \in Scalars :
              Published([b EXCEPT !.tau_powers_g1[2] = x, !.tau_powers_g2[2] = y],
                        [a EXCEPT !.tau_powers_g1[2] = u],
                        <<b, a>>)

\* A before file whose alpha sequence starts with two unrelated points (the
\* point at infinity included), and an after file
\* whose alpha sequence is any non-zero multiple of the powers of its tau.
InitLenientAlpha ==
    \E s \in {<<3, 2, 2>>}, k \in {<<6, 3, 4>>} :
        LET b == Reference(s[1], s[2], s[3], TauPowersG1Length, TauPowersLength)
            a == Transform(b, k[1], k[2], k[3])
        IN \E x \in Scalars, y \in {Identity, G1One}, c \in NonZero :
              Published(
                  [b EXCEPT !.alpha_tau_powers_g1 =
                       [i \in DOMAIN @ |-> IF i = 1 THEN x ELSE IF i = 2 THEN y ELSE @[i]]],
                  [a EXCEPT !.alpha_tau_powers_g1 =
                       [i \in DOMAIN @ |-> Mul(c, a.tau_powers_g1[i])]],
                  <<b, a>>)

Init ==
    /\ InitLocals
    /\ \/ InitHonestOf(BeforeSecrets, TauPowersG1Length)
       \/ InitSubstitutedOf(BeforeSecrets, ContributionSecrets)
       \/ InitFaults
       \/ InitLenientTau
       \/ InitLenientAlpha

Spec == Init /\ [][Next]_vars

\* An honest round in which after.tau_powers_g1 has two non-adjacent elements
\* (Rust indices i - 1 and j - 1, both >= 2) holding different values swapped.
InitSwapFiles ==
    \E s \in {<<3, 2, 2>>}, tk \in NonZero, i \in 3 .. SwapLength, j \in 3 .. SwapLength :
        LET b == Reference(s[1], s[2], s[3], SwapLength, TauPowersLength)
            a == Transform(b, tk, 3, 4)
            P == a.tau_powers_g1
        IN /\ j >= i + 2
           /\ P[i] # P[j]
           /\ Published(b, [a EXCEPT !.tau_powers_g1 = [P EXCEPT ![i] = P[j], ![j] = P[i]]],
                        <<b, a>>)

InitSwap == InitLocals /\ InitSwapFiles

SpecSwap == InitSwap /\ [][Next]_vars

\* The rounds that are audited more than once.
InitRerunFiles ==
    \/ InitHonestOf({<<3, 2, 2>>}, TauPowersG1Length)
    \/ InitSubstitutedOf({<<3, 2, 2>>}, {<<5, 3, 4>>})

InitRerun == InitLocals /\ InitRerunFiles

SpecRerun == InitRerun /\ [][NextRerun]_vars

---------------------------------------------------------------------------
(* Properties of the inputs, stated on the files and not on the run *)

Exited == pc = "exit"

Body14 == challenge_14.body
Body15 == challenge_15.body

SizesExpected ==
    challenge_14.size = ACCUMULATOR_BYTE_SIZE /\ challenge_15.size = ACCUMULATOR_BYTE_SIZE

\* Both files carry the bytes of the published digests.
HeadersPublished == challenge_14.header = Header14 /\ challenge_15.header = Header15

\* P[i] = tau * P[i - 1] for every i.
Consecutive(P, tau) == \A i \in 2 .. Len(P) : P[i] = Mul(tau, P[i - 1])

\* s is the accumulator of non-zero secrets.
WellFormed(s) ==
    /\ s.tau_powers_g1[2] # 0 /\ s.alpha_tau_powers_g1[1] # 0 /\ s.beta_g2 # 0
    /\ s = Reference(s.tau_powers_g1[2], s.alpha_tau_powers_g1[1], s.beta_g2,
                     Len(s.tau_powers_g1), Len(s.tau_powers_g2))

\* The contributions <<tk, ak, bk>> of non-zero scalars that turn b into a.
ContributionsFrom(b, a) ==
    {k \in {<<tk, ak, bk>> :
               tk \in {x \in NonZero : Mul(x, b.tau_powers_g2[2]) = a.tau_powers_g2[2]},
               ak \in {x \in NonZero :
                          Mul(x, b.alpha_tau_powers_g1[1]) = a.alpha_tau_powers_g1[1]},
               bk \in {x \in NonZero : Mul(x, b.beta_g2) = a.beta_g2}} :
        a = Transform(b, k[1], k[2], k[3])}

\* The ratio checks of the two rounds, written with the exponents.
TauRatioHolds(b, a) ==
    (b.tau_powers_g1[2] * a.tau_powers_g2[2]) % GroupOrder
        = (a.tau_powers_g1[2] * b.tau_powers_g2[2]) % GroupOrder
BetaRatioHolds(b, a) ==
    (b.beta_tau_powers_g1[1] * a.beta_g2) % GroupOrder
        = (a.beta_tau_powers_g1[1] * b.beta_g2) % GroupOrder

\* Every sequence of a advances by the tau of a.
PowersConsecutive(a) ==
    /\ Consecutive(a.tau_powers_g1, a.tau_powers_g2[2])
    /\ Consecutive(a.tau_powers_g2, a.tau_powers_g1[2])
    /\ Consecutive(a.alpha_tau_powers_g1, a.tau_powers_g2[2])
    /\ Consecutive(a.beta_tau_powers_g1, a.tau_powers_g2[2])

Range(seq) == {seq[i] : i \in DOMAIN seq}
Last(seq) == seq[Len(seq)]

PowersVerdicts == {"PowersNotConsecutive_tau_g1", "PowersNotConsecutive_tau_g2",
                   "PowersNotConsecutive_alpha", "PowersNotConsecutive_beta"}

---------------------------------------------------------------------------
(* C1 *)

\* C1 as stated: for a well-formed before, any contribution of three non-zero
\* scalars, published digests and expected sizes, the run ends in success
\* whatever the draws.
C1_AnyNonZeroTripleAccepted ==
    (/\ Exited
     /\ SizesExpected /\ HeadersPublished
     /\ WellFormed(Body14)
     /\ ContributionsFrom(Body14, Body15) # {})
        => verdict = "valid"

\* C1 amended: the same with alpha_k # 1; no assertion panics at any point and
\* the run ends in success after every statement of main has run.
C1_HonestAccepted ==
    (/\ Exited
     /\ SizesExpected /\ HeadersPublished
     /\ WellFormed(Body14)
     /\ \E k \in ContributionsFrom(Body14, Body15) : k[2] # 1)
        => (verdict = "valid" /\ evaluated = MainOrder)

C1_Witness ==
    /\ Exited /\ verdict = "valid"
    /\ SizesExpected /\ HeadersPublished
    /\ WellFormed(Body14)
    /\ <<5, 3, 4>> \in ContributionsFrom(Body14, Body15)
    /\ Body14.alpha_tau_powers_g1[1] # G1One

---------------------------------------------------------------------------
(* C2 *)

\* after is an honest contribution to a well-formed before, except that
\* tau_powers_g1[1] is the before point scaled by a non-zero tau' different
\* from the tau_k of tau_powers_g2[1].
TauG1Perturbed ==
    /\ SizesExpected /\ HeadersPublished
    /\ WellFormed(Body14)
    /\ Body15.tau_powers_g1[2] # Identity
    /\ \E tk \in NonZero :
          /\ Body15.tau_powers_g1[2] # Mul(tk, Body14.tau_powers_g1[2])
          /\ ContributionsFrom(Body14,
                 [Body15 EXCEPT !.tau_powers_g1[2] = Mul(tk, Body14.tau_powers_g1[2])]) # {}

\* C2: a tau that differs between G1 and G2 is rejected by the tau cross-round
\* check: the ratios differ, the verdict is TauUpdateMismatch and the tau
\* check is the last statement that runs.
C2_TauMismatchRejected ==
    (Exited /\ TauG1Perturbed)
        => /\ ~TauRatioHolds(Body14, Body15)
           /\ verdict = "TauUpdateMismatch"
           /\ evaluated = <<"size_14", "size_15", "digest_14", "digest_15",
                            "deserialize_before", "deserialize_after",
                            "generator_g1", "generator_g2", "tau_update">>

\* The scenario of the spec: before tau = 3, G2 scaled by 5, G1 scaled by 6.
C2_Witness ==
    /\ Exited /\ TauG1Perturbed
    /\ verdict = "TauUpdateMismatch"
    /\ Body14.tau_powers_g1[2] = 3
    /\ Body15.tau_powers_g2[2] = Mul(5, 3)
    /\ Body15.tau_powers_g1[2] = Mul(6, 3)

---------------------------------------------------------------------------
(* C3 *)

TauCheckPassed == "tau_update" \in Range(evaluated) /\ verdict # "TauUpdateMismatch"

\* One scalar takes both before points to the after points.
OneScalar(b, a) ==
    \E sc \in Scalars :
        /\ a.tau_powers_g1[2] = Mul(sc, b.tau_powers_g1[2])
        /\ a.tau_powers_g2[2] = Mul(sc, b.tau_powers_g2[2])

\* C3 as stated: whenever the tau check passes, one scalar scales both points,
\* for every before the lenient decode yields.
C3_PassImpliesOneScalar ==
    TauCheckPassed => OneScalar(before[1], after[1])

\* C3 amended: the same unless both before points are the point at infinity.
C3_PassImpliesOneScalarNoIdentity ==
    (/\ TauCheckPassed
     /\ ~(before[1].tau_powers_g1[2] = Identity /\ before[1].tau_powers_g2[2] = Identity))
        => OneScalar(before[1], after[1])

\* The check passed on a before whose two points are not the same power.
C3_Witness ==
    /\ TauCheckPassed
    /\ before[1].tau_powers_g1[2] # Identity
    /\ before[1].tau_powers_g1[2] # before[1].tau_powers_g2[2]
    /\ after[1].tau_powers_g1[2] # after[1].tau_powers_g2[2]

---------------------------------------------------------------------------
(* C4 *)

\* The positions at which the file body s differs from the body o.
Changed(s, o) == {pos \in Positions(o) : PointAt(s, pos) # PointAt(o, pos)}

\* The files are an accepted honest transcript with the point at position
\* pos of the before body (file = 14) or the after body (file = 15) replaced.
SinglePointChanged(file, pos) ==
    /\ SizesExpected /\ HeadersPublished
    /\ WellFormed(original[1])
    /\ \E k \in ContributionsFrom(original[1], original[2]) : k[2] # 1
    /\ IF file = 14
       THEN Changed(Body14, original[1]) = {pos} /\ Body15 = original[2]
       ELSE Changed(Body15, original[2]) = {pos} /\ Body14 = original[1]

\* The points of the before snapshot that main reads in a ratio check, and
\* the points of the after snapshot that a generator or ratio check reads.
BeforeRatioPositions ==
    {<<"tau_powers_g1", 2>>, <<"tau_powers_g2", 2>>,
     <<"beta_tau_powers_g1", 1>>, <<"beta_g2", 1>>}
AfterRatioPositions ==
    BeforeRatioPositions \cup {<<"tau_powers_g1", 1>>, <<"tau_powers_g2", 1>>}

\* C4 as stated: a change of any single point of either body is rejected.
C4_AnyPointChangeRejected ==
    \A file \in {14, 15}, pos \in Positions(original[1]) :
        (Exited /\ SinglePointChanged(file, pos)) => verdict # "valid"

\* C4 amended: a change of a single point that a generator or cross-round
\* ratio check reads is rejected by the decode, generator or ratio checks,
\* before any draw is made.
C4_RatioPointChangeRejected ==
    /\ \A pos \in BeforeRatioPositions :
          (Exited /\ SinglePointChanged(14, pos))
              => verdict \in {"TauUpdateMismatch", "BetaUpdateMismatch"}
    /\ \A pos \in AfterRatioPositions :
          (Exited /\ SinglePointChanged(15, pos))
              => verdict \in {"IdentityElementRejected", "GeneratorMismatch",
                              "TauUpdateMismatch", "BetaUpdateMismatch"}

\* A changed beta_g2 of the before body was caught by the beta ratio check.
C4_Witness ==
    /\ Exited
    /\ SinglePointChanged(14, <<"beta_g2", 1>>)
    /\ verdict = "BetaUpdateMismatch"

---------------------------------------------------------------------------
(* C5 *)

\* C5: a header that differs from the published digest ends the audit with
\* AttestationMismatch at the digest checks, before either body is decoded
\* and before any protocol check; the rendered digest has 128 characters; a
\* body is decoded only after both digests matched.
C5_AttestationFatal ==
    /\ pc = "digest_14" => Len(response_digest(challenge_14)) = 2 * DigestLength
    /\ pc = "digest_15" => Len(response_digest(challenge_15)) = 2 * DigestLength
    /\ (Exited /\ SizesExpected /\ ~HeadersPublished)
          => verdict = "AttestationMismatch"
    /\ verdict = "AttestationMismatch"
          => /\ Exited
             /\ ~HeadersPublished
             /\ before = << >> /\ after = << >>
             /\ Last(evaluated) \in {"digest_14", "digest_15"}
             /\ Range(evaluated) \subseteq {"size_14", "size_15", "digest_14", "digest_15"}
    /\ (before # << >> \/ after # << >>)
          => /\ HeadersPublished
             /\ {"digest_14", "digest_15"} \subseteq Range(evaluated)

\* Only the header of challenge_15 is corrupt: the audit ended at its digest check.
C5_Witness ==
    /\ Exited
    /\ verdict = "AttestationMismatch"
    /\ challenge_14.header = Header14
    /\ challenge_15.header # Header15
    /\ Last(evaluated) = "digest_15"
    /\ Identity \in AllPoints(Body15)

---------------------------------------------------------------------------
(* C6 *)

\* The checks whose outcome the two files decide, in the order of the spec
\* (tau, beta, alpha) and in the order of the code (tau, alpha, beta):
\* <<statement, holds on the files, verdict when it does not>>.
FileChecks(crossRound) ==
    <<  <<"size_14", challenge_14.size = ACCUMULATOR_BYTE_SIZE, "SizeMismatch">>,
        <<"size_15", challenge_15.size = ACCUMULATOR_BYTE_SIZE, "SizeMismatch">>,
        <<"digest_14", challenge_14.header = Header14, "AttestationMismatch">>,
        <<"digest_15", challenge_15.header = Header15, "AttestationMismatch">>,
        <<"deserialize_after", Identity \notin AllPoints(Body15),
          "IdentityElementRejected">>,
        <<"generator_g1", Body15.tau_powers_g1[1] = 1, "GeneratorMismatch">>,
        <<"generator_g2", Body15.tau_powers_g2[1] = 1, "GeneratorMismatch">> >>
    \o crossRound

SpecCrossRound ==
    <<  <<"tau_update", TauRatioHolds(Body14, Body15), "TauUpdateMismatch">>,
        <<"beta_update", BetaRatioHolds(Body14, Body15), "BetaUpdateMismatch">>,
        <<"alpha_changed",
          Body14.alpha_tau_powers_g1[1] # Body15.alpha_tau_powers_g1[1],
          "AlphaUnchanged">> >>

CodeCrossRound ==
    <<  <<"tau_update", TauRatioHolds(Body14, Body15), "TauUpdateMismatch">>,
        <<"alpha_changed",
          Body14.alpha_tau_powers_g1[1] # Body15.alpha_tau_powers_g1[1],
          "AlphaUnchanged">>,
        <<"beta_update", BetaRatioHolds(Body14, Body15), "BetaUpdateMismatch">> >>

\* The run ended at the first check of checks that the files violate, and with
\* a consecutive-powers outcome when they violate none.
EndsAtFirstViolated(checks) ==
    LET bad == {i \in DOMAIN checks : ~checks[i][2]}
    IN IF bad = {}
       THEN verdict \in PowersVerdicts \cup {"valid"}
       ELSE LET first == CHOOSE i \in bad : \A j \in bad : i <= j
            IN /\ verdict = checks[first][3]
               /\ Last(evaluated) = checks[first][1]

\* The order of the statements in the spec and in the code.
OrderOf(crossRound) ==
    <<"size_14", "size_15", "digest_14", "digest_15",
      "deserialize_before", "deserialize_after", "generator_g1", "generator_g2">>
    \o crossRound
    \o <<"rlc_tau_g1", "rlc_tau_g2", "tau_powers_g1", "tau_powers_g2",
         "rlc_alpha", "rlc_beta", "alpha_powers", "beta_powers", "return">>

IsPrefix(p, q) == Len(p) <= Len(q) /\ p = SubSeq(q, 1, Len(p))

\* C6 as stated: the statements run in the order size, digest, decode,
\* generator, tau, beta, alpha, consecutive powers, and the verdict names the
\* first violated check in that order.
C6_SpecOrder ==
    /\ IsPrefix(evaluated, OrderOf(<<"tau_update", "beta_update", "alpha_changed">>))
    /\ Exited => EndsAtFirstViolated(FileChecks(SpecCrossRound))

\* C6 amended: the same with the alpha check before the beta update check.
C6_CodeOrder ==
    /\ IsPrefix(evaluated, OrderOf(<<"tau_update", "alpha_changed", "beta_update">>))
    /\ Exited => EndsAtFirstViolated(FileChecks(CodeCrossRound))
    /\ (Exited /\ verdict # "valid") => Last(evaluated) # "return"

\* A transcript with both an unchanged alpha and a beta update mismatch.
C6_Witness ==
    /\ Exited
    /\ verdict = "AlphaUnchanged"
    /\ ~BetaRatioHolds(Body14, Body15)
    /\ TauRatioHolds(Body14, Body15)
    /\ "beta_update" \notin Range(evaluated)

---------------------------------------------------------------------------
(* C7 *)

\* ratio is the pair of combinations of the windows P_0..P_{n-2} and
\* P_1..P_{n-1} of P with one draw r_1..r_{n-1}; when P advances by tau, the
\* second is tau times the first and the pair has the ratio of (1, tau).
RlcIdentity(P, ratio, tau) ==
    LET n == Len(P)
        WindowA(r) == Combine([i \in 1 .. n - 1 |-> P[i]], r)
        WindowB(r) == Combine([i \in 1 .. n - 1 |-> P[i + 1]], r)
    IN /\ \E r \in Draws(n - 1) : ratio = <<WindowA(r), WindowB(r)>>
       /\ Consecutive(P, tau)
             => /\ ratio[2] = Mul(tau, ratio[1])
                /\ (ratio[1] * tau) % GroupOrder = (ratio[2] * 1) % GroupOrder

\* C7: each rlc_ratio result of main is the pair of window combinations of
\* one draw, and on a sequence that advances by tau (whatever its first
\* element) the pair has the ratio 1 : tau.
C7_ConsecutivePowersIdentity ==
    /\ pc = "rlc_tau_g2"
          => RlcIdentity(after[1].tau_powers_g1, tau_powers_ratio_g1,
                         after[1].tau_powers_g2[2])
    /\ pc = "tau_powers_g1"
          => RlcIdentity(after[1].tau_powers_g2, tau_powers_ratio_g2,
                         after[1].tau_powers_g1[2])
    /\ pc = "rlc_beta"
          => RlcIdentity(after[1].alpha_tau_powers_g1, alpha_tau_powers_ratio_g1,
                         after[1].tau_powers_g2[2])
    /\ pc = "alpha_powers"
          => RlcIdentity(after[1].beta_tau_powers_g1, beta_tau_powers_ratio_g1,
                         after[1].tau_powers_g2[2])

\* A non-trivial combination of an alpha sequence that does not start at the
\* generator and advances by a tau other than 1.
C7_Witness ==
    /\ pc = "rlc_beta"
    /\ after[1].alpha_tau_powers_g1[1] \notin {Identity, G1One}
    /\ after[1].tau_powers_g2[2] \notin {Identity, G2One}
    /\ Consecutive(after[1].alpha_tau_powers_g1, after[1].tau_powers_g2[2])
    /\ alpha_tau_powers_ratio_g1[1] # Identity
    /\ alpha_tau_powers_ratio_g1[2]
          = Mul(after[1].tau_powers_g2[2], alpha_tau_powers_ratio_g1[1])

---------------------------------------------------------------------------
(* C10 *)

\* Every check other than the alpha check holds on the files, and the alpha
\* sequence of after advances by the tau of after.
AllButAlphaHold ==
    /\ SizesExpected /\ HeadersPublished
    /\ Identity \notin AllPoints(Body15)
    /\ Body15.tau_powers_g1[1] = 1 /\ Body15.tau_powers_g2[1] = 1
    /\ TauRatioHolds(Body14, Body15)
    /\ BetaRatioHolds(Body14, Body15)
    /\ PowersConsecutive(Body15)

\* C10: with every other check holding, the run ends in AlphaUnchanged exactly
\* when the zeroth alpha elements of before and after are equal, and in
\* success otherwise, whatever the alpha sequence of before is.
C10_AlphaLivenessOnly ==
    (Exited /\ AllButAlphaHold)
        => /\ verdict = "AlphaUnchanged"
                <=> Body15.alpha_tau_powers_g1[1] = Body14.alpha_tau_powers_g1[1]
           /\ verdict = "valid"
                <=> Body15.alpha_tau_powers_g1[1] # Body14.alpha_tau_powers_g1[1]

\* Accepted although the alpha sequence of before does not advance by its tau
\* and starts at the point at infinity.
C10_Witness ==
    /\ Exited /\ AllButAlphaHold
    /\ verdict = "valid"
    /\ Body14.alpha_tau_powers_g1[1] = Identity
    /\ ~Consecutive(Body14.alpha_tau_powers_g1, Body14.tau_powers_g2[2])

---------------------------------------------------------------------------
(* C8 *)

\* The pairs <<i, j>> of non-adjacent positions (Rust indices i - 1 and j - 1,
\* both >= 2) holding different values such that the files are an accepted
\* honest transcript with after.tau_powers_g1[i] and [j] swapped.
SwappedAt ==
    LET P == original[2].tau_powers_g1
    IN {ij \in (3 .. Len(P)) \X (3 .. Len(P)) :
          /\ ij[2] >= ij[1] + 2
          /\ P[ij[1]] # P[ij[2]]
          /\ SizesExpected /\ HeadersPublished
          /\ WellFormed(original[1])
          /\ \E k \in ContributionsFrom(original[1], original[2]) : k[2] # 1
          /\ Body14 = original[1]
          /\ Body15 = [original[2] EXCEPT
                          !.tau_powers_g1 = [P EXCEPT ![ij[1]] = P[ij[2]],
                                                      ![ij[2]] = P[ij[1]]]]}

\* The draws r that satisfy the linear equation under which the combination
\* of the sequence P with [i] and [j] swapped still has the ratio 1 : tau.
OnSwapEquation(r, P, i, j, tau) ==
    LET n == Len(P)
        D(x, y) == (x + GroupOrder * GroupOrder - y) % GroupOrder
    IN ( r[i - 1] * D(P[j], P[i])
       + r[i] * D(P[i + 1], Mul(tau, P[j]))
       + r[j - 1] * D(P[i], P[j])
       + (IF j < n THEN r[j] * D(P[j + 1], Mul(tau, P[i])) ELSE 0) ) % GroupOrder = 0

\* On the swapped input, the combination of a draw has the ratio 1 : tau
\* exactly when the draw satisfies the linear equation.
SwapEquationDecides ==
    \A ij \in SwappedAt :
        LET Q == Body15.tau_powers_g1
            n == Len(Q)
            tau == Body15.tau_powers_g2[2]
            A == [k \in 1 .. n - 1 |-> Q[k]]
            B == [k \in 1 .. n - 1 |-> Q[k + 1]]
        IN \A r \in Draws(n - 1) :
               (Combine(B, r) = Mul(tau, Combine(A, r)))
                   <=> OnSwapEquation(r, original[2].tau_powers_g1, ij[1], ij[2], tau)

\* The check of line 163 is reached with every earlier check passed, and it
\* panics exactly when the combination that was drawn does not have the
\* ratio 1 : tau.
SwapDetectedStep ==
    SwappedAt # {}
        => /\ verdict' \in {"running", "valid", "PowersNotConsecutive_tau_g1"}
           /\ pc = "size_14" => SwapEquationDecides
           /\ pc = "tau_powers_g1"
                 => LET tau == Body15.tau_powers_g2[2]
                        onEquation ==
                            tau_powers_ratio_g1[2] = Mul(tau, tau_powers_ratio_g1[1])
                    IN /\ {"generator_g1", "generator_g2", "tau_update",
                           "alpha_changed", "beta_update"} \subseteq Range(evaluated)
                       /\ onEquation => (verdict' = "running" /\ pc' = "tau_powers_g2")
                       /\ ~onEquation
                             => (verdict' = "PowersNotConsecutive_tau_g1" /\ pc' = "exit")

\* C8: on an honest after with two non-adjacent elements of tau_powers_g1
\* (indices >= 2, different values) swapped, no check before line 163 fails,
\* and line 163 panics with PowersNotConsecutive for exactly the draws that
\* do not satisfy one linear equation in r_1..r_{n-1}.
C8_SwapDetected == [][SwapDetectedStep]_vars

C8_Witness ==
    /\ Exited
    /\ SwappedAt # {}
    /\ verdict = "PowersNotConsecutive_tau_g1"
    /\ Last(evaluated) = "tau_powers_g1"

---------------------------------------------------------------------------
(* C9 *)

\* C9 as stated: every execution on the same files ends with the same verdict.
C9_SameVerdict ==
    Exited => \A i \in DOMAIN previous : previous[i] = verdict

\* C9 amended: two executions end with the same verdict, except that on an
\* after whose sequences are not all consecutive powers the outcomes of the
\* consecutive-powers checks (success included) may differ with the draw.
C9_SameVerdictUpToDraw ==
    Exited =>
        \A i \in DOMAIN previous :
            \/ previous[i] = verdict
            \/ /\ {previous[i], verdict} \subseteq PowersVerdicts \cup {"valid"}
               /\ ~PowersConsecutive(Body15)

\* A second execution repeated the failure of the first.
C9_Witness ==
    /\ Exited
    /\ previous # << >>
    /\ previous[1] = verdict
    /\ verdict = "BetaUpdateMismatch"

====
